---- MODULE Spec2Model ----
(***************************************************************************)
(* Pipedrive data sync: the extraction run (src/extraction.py), the store  *)
(* upsert (src/db/data_access_layer.py) and the top-level orchestration    *)
(* (src/main.py), as a state machine.                                      *)
(*                                                                         *)
(* One asyncio event loop runs run() and one get_deals task per page.      *)
(* A task is suspended only at an await (LIMITER.wait, client.get,         *)
(* collection.update_one, the retry wrapper's sleep); the code between two *)
(* awaits is one atomic step.  Strings the program edits are sequences of  *)
(* one-character strings.                                                  *)
(***************************************************************************)
EXTENDS Integers, Sequences, FiniteSets, TLC

VARIABLES
    remote,      \* which remote data set the CRM serves (fixed during a behaviour)
    mainPc,      \* src/main.py: position of the orchestration script
    stepLog,     \* src/main.py: the steps started / ended / failed, in order
    runPc,       \* extraction.run(): "idle", "gather", "closing", "raised", "done"
    runErr,      \* the exception run() re-raises
    pages,       \* deal_pages: the page descriptors (offsets) of get_total_pages
    task,        \* one get_deals task per page
    store,       \* the document store: persons and deals, keyed by _id
    reqCount,    \* history: number of times each remote call was sent in this run
    unthrottled, \* history: kinds of request sent without a LIMITER.wait() of their own
    retried,     \* history: <<operation, exception, by a read timeout>> the wrapper retried
    exhausted,   \* history: <<operation, kind raised>> when all attempts timed out
    lenient,     \* history: kinds of call whose non-200 response was parsed, not raised
    swallowed,   \* history: store-write exceptions caught by insert_or_update_document
    atRaise,     \* history: the page tasks still in flight when run() raised
    faults,      \* number of failures injected so far
    runNo,       \* how many times the script has been started
    prevStore,   \* the store as the previous script run left it
    clean,       \* <<previous run was clean, this run is clean so far>>
    total_count, \* additional_data.summary.total_count of the summary response
    variant,     \* which reconciliation script runs: mailers, purls or digisheet
    cursor,      \* the _ids of the persons collection, as collection.find() yields them
    rows,        \* the value rows the spreadsheet ranges hold
    index,       \* load_mongodb_data: the dictionaries built from the collection
    sheet_data,  \* main(): the rows kept for the search, with their cleaned keys
    results,     \* search_data: one result per row of sheet_data
    batch_data,  \* update_sheet_with_results: the ranges written to the sheet
    reconPc      \* position of the reconciliation script's main()

\* the state of a reconciliation script
recon == << variant, cursor, rows, index, sheet_data, results, batch_data, reconPc >>

vars == << remote, mainPc, stepLog, runPc, runErr, pages, task, store, reqCount,
           unthrottled, retried, exhausted, lenient, swallowed, atRaise, faults,
           runNo, prevStore, clean, total_count, recon >>

-----------------------------------------------------------------------------
(* Bounds of the model *)

\* failures (timeouts, error statuses, store errors) injected in one behaviour
MaxFaults == 3
\* times the script is started in one behaviour
MaxRuns == 2
\* largest total_count the summary response reports
MaxTotalCount == 250
\* documents in the persons collection when a reconciliation script runs
MaxDocs == 3
\* value rows in the sheet range a reconciliation script reads
MaxRows == 2

-----------------------------------------------------------------------------
(* Program constants *)

\* stop_after_attempt(3)
StopAfterAttempt == 3
\* limit=100: records per page
PageSize == 100

None == "None"

-----------------------------------------------------------------------------
(* Strings as sequences of characters *)

RECURSIVE Join(_, _)
\* sep.join(parts)
Join(parts, sep) ==
    IF parts = << >> THEN << >>
    ELSE IF Len(parts) = 1 THEN parts[1]
    ELSE parts[1] \o sep \o Join(Tail(parts), sep)

RECURSIVE RemoveChar(_, _)
\* s.replace(c, "")
RemoveChar(s, c) ==
    IF s = << >> THEN << >>
    ELSE IF Head(s) = c THEN RemoveChar(Tail(s), c)
    ELSE << Head(s) >> \o RemoveChar(Tail(s), c)

RECURSIVE LStrip(_)
LStrip(s) == IF s # << >> /\ Head(s) = " " THEN LStrip(Tail(s)) ELSE s

RECURSIVE RStrip(_)
RStrip(s) ==
    IF s # << >> /\ s[Len(s)] = " " THEN RStrip(SubSeq(s, 1, Len(s) - 1)) ELSE s

\* s.strip()
Strip(s) == RStrip(LStrip(s))

CommaSpace == << ",", " " >>

-----------------------------------------------------------------------------
(* The remote CRM: what each endpoint answers with status 200.  With any   *)
(* other status the body is the API's JSON error object, which has no data *)

NoneStr == << None >>

Datasets == {"A", "B", "C"}

\* additional_data.summary.total_count of the summary request
TotalCount(ds) == IF ds = "A" THEN 150 ELSE IF ds = "B" THEN 120 ELSE 2

Ref(kind, value) == [kind |-> kind, value |-> value]

\* an update_time "YYYY-MM-DD HH:MM:SS", as its six numbers
On(day) == << 2024, 1, day, 9, 30, 0 >>

\* JSON values of a field that should hold a number: a number, a string, null
Number(n) == [type |-> "number", v |-> n]
String(s) == [type |-> "string", v |-> s]
Null == [type |-> "null"]

\* the "data" list of the listing request at start=offset
Listing(ds, offset) ==
    IF ds = "A" THEN
        IF offset = 0 THEN
            << [id |-> "d1", person_id |-> Ref("absent", None), update_time |-> On(11)],
               [id |-> "d2", person_id |-> Ref("bare", "p1"), update_time |-> On(12)] >>
        ELSE IF offset = PageSize THEN
            << [id |-> "d3", person_id |-> Ref("wrapped", "p1"), update_time |-> On(13)] >>
        ELSE << >>
    ELSE IF ds = "B" THEN
        IF offset = 0 THEN
            << [id |-> "d1", person_id |-> Ref("wrapped", None), update_time |-> On(21)],
               [id |-> "d2", person_id |-> Ref("wrapped", "p2"), update_time |-> On(22)],
               [id |-> "d4", person_id |-> Ref("bare", "p2"), update_time |-> On(24)] >>
        ELSE << >>
    ELSE
        IF offset = 0 THEN
            << [id |-> "d5", person_id |-> Ref("wrapped", "p2"), update_time |-> On(28)],
               [id |-> "d6", person_id |-> Ref("wrapped", "p2"), update_time |-> On(29)] >>
        ELSE << >>

\* records of the listing whose persons share phone numbers and emails
SharedContacts ==
    << [id |-> "d2", person_id |-> Ref("bare", "p1"), update_time |-> On(12)],
       [id |-> "d4", person_id |-> Ref("bare", "p2"),
        update_time |-> << 2023, 12, 31, 23, 59, 59 >>],
       [id |-> "d3", person_id |-> Ref("wrapped", "p3"),
        update_time |-> << 2024, 2, 1, 8, 0, 0 >>],
       [id |-> "d7", person_id |-> Ref("bare", "p4"), update_time |-> On(12)] >>

\* the "data" object of persons/{id}
PersonDetail(pid) ==
    IF pid = "p1" THEN
        [ benefit_a |-> NoneStr,
          benefit_b |-> << "P", "U", "R", "L", " ", "7" >>,
          phone |-> << << "5", "5", "5", "-", "1", "2", "3", "-", "4", "5", "6", "7" >>,
                       << "5", "5", "5", "-", "0", "0", "0", "-", "1", "1", "1", "1" >> >>,
          email |-> << << "a", "@", "b", ".", "c" >> >>,
          address |-> << << "1", " ", "M", "a", "i", "n" >>, NoneStr, << "L", "A" >>, NoneStr >> ]
    ELSE IF pid = "p3" THEN
        [ benefit_a |-> NoneStr,
          benefit_b |-> << "P", "U", "R", "L", " ", "7" >>,
          phone |-> << << "(", "5", "5", "5", ")", " ", "1", "2", "3", "-", "4", "5", "6", "7" >> >>,
          email |-> << << "a", "@", "b", ".", "c" >> >>,
          address |-> << NoneStr, NoneStr, << "S", "F" >>, NoneStr >> ]
    ELSE IF pid = "p4" THEN
        [ benefit_a |-> << "8" >>,
          benefit_b |-> NoneStr,
          phone |-> << << "5", "5", "5", " ", "1", "2", "3", " ", "4", "5", "6", "7" >> >>,
          email |-> << << "a", "@", "b", ".", "c" >> >>,
          address |-> << NoneStr, NoneStr, NoneStr, NoneStr >> ]
    ELSE
        [ benefit_a |-> << "9", "9" >>,
          benefit_b |-> NoneStr,
          phone |-> << >>,
          email |-> << << "x", "@", "y", ".", "z" >>, << "q", "@", "r", ".", "s" >> >>,
          address |-> << NoneStr, NoneStr, NoneStr, NoneStr >> ]

\* the "data" object of deals/{id}
DealDetail(did) ==
    IF did = "d2" THEN
        [ stage_order_nr |-> Number(1), status |-> "won", user_name |-> "Ann",
          update_time |-> On(12), person_name |-> "Pat" ]
    ELSE IF did = "d3" THEN
        [ stage_order_nr |-> Number(6), status |-> "lost", user_name |-> "Bob",
          update_time |-> On(13), person_name |-> "Pat" ]
    ELSE IF did = "d4" THEN
        [ stage_order_nr |-> Number(3), status |-> "open", user_name |-> "Cy",
          update_time |-> On(24), person_name |-> "Quin" ]
    ELSE IF did = "d7" THEN
        [ stage_order_nr |-> Number(5), status |-> "won", user_name |-> "Flo",
          update_time |-> On(12), person_name |-> "Sam" ]
    ELSE IF did = "d5" THEN
        [ stage_order_nr |-> Number(8), status |-> "open", user_name |-> "Eve",
          update_time |-> On(28), person_name |-> "Quin" ]
    ELSE IF did = "d6" THEN
        [ stage_order_nr |-> Null, status |-> "won", user_name |-> "Eve",
          update_time |-> On(29), person_name |-> "Quin" ]
    ELSE
        [ stage_order_nr |-> Number(0), status |-> "open", user_name |-> "Dee",
          update_time |-> On(10), person_name |-> "Rae" ]

-----------------------------------------------------------------------------
(* src/utils/cleaning_data.py.  An absent string (Python None) is NoneStr. *)

Digits == {"0", "1", "2", "3", "4", "5", "6", "7", "8", "9"}

IsDigit(c) == c \in Digits

\* `not s` of an optional string: None or ""
Falsy(s) == s = NoneStr \/ s = << >>

\* clean_phone
CleanPhone(phone) ==
    IF Falsy(phone) THEN NoneStr
    ELSE LET digits == SelectSeq(phone, IsDigit)
         IN  IF Len(digits) >= 10 THEN digits ELSE NoneStr

\* the characters of s before the first c (all of s when it has none)
RECURSIVE UpTo(_, _)
UpTo(s, c) ==
    IF s = << >> \/ Head(s) = c THEN << >>
    ELSE << Head(s) >> \o UpTo(Tail(s), c)

\* email_regex.match: [^@]+@[^@]+\.[^@]+ matches at the start of s (the end
\* of s need not be reached)
EmailRegexMatch(s) ==
    LET local == UpTo(s, "@")
        rest == SubSeq(s, Len(local) + 2, Len(s))
        domain == UpTo(rest, "@")
    IN  /\ Len(local) >= 1
        /\ Len(local) < Len(s)
        /\ \E j \in 2 .. Len(domain) - 1 : domain[j] = "."

\* clean_email
CleanEmail(email) ==
    IF Falsy(email) THEN NoneStr
    ELSE LET e == Strip(email)
         IN  IF EmailRegexMatch(e) THEN e ELSE NoneStr

StartsWith(s, prefix) ==
    Len(s) >= Len(prefix) /\ SubSeq(s, 1, Len(prefix)) = prefix

\* s.replace(old, ""): every occurrence, left to right
RECURSIVE Remove(_, _)
Remove(s, old) ==
    IF s = << >> THEN << >>
    ELSE IF StartsWith(s, old) THEN Remove(SubSeq(s, Len(old) + 1, Len(s)), old)
    ELSE << Head(s) >> \o Remove(Tail(s), old)

PurlPrefix == << "P", "U", "R", "L", " " >>

\* str(benefit_id): the text of None is "None"
Str(s) == IF s = NoneStr THEN << "N", "o", "n", "e" >> ELSE s

\* clean_benefit_id
CleanBenefitId(benefit_id) ==
    LET b == Strip(Str(benefit_id))
    IN  IF StartsWith(b, PurlPrefix) THEN Remove(b, PurlPrefix) ELSE b

-----------------------------------------------------------------------------
(* src/models/data_models.py *)

StageValues == 0 .. 7

StageDescription(v) ==
    CASE v = 0 -> "Trying to Contact"
      [] v = 1 -> "Took App"
      [] v = 2 -> "Rec Docs - Lender Call"
      [] v = 3 -> "Financial Sched"
      [] v = 4 -> "Compliance Shed"
      [] v = 5 -> "Pending Payment"
      [] v = 6 -> "PAID"
      [] v = 7 -> "Sub'd to Processing"

\* from_number with a fallback: a value outside the enum becomes stage 0
StageFromNumberOrFirst(number) ==
    IF number.type = "number" /\ number.v \in StageValues
    THEN [ok |-> TRUE, value |-> number.v]
    ELSE [ok |-> TRUE, value |-> 0]

\* StageStatus.from_number: cls(number) looks the value up among the members'
\* values; a ValueError for anything that equals none of them
StageFromNumber(number) ==
    IF number.type = "number" /\ number.v \in StageValues
    THEN [ok |-> TRUE, value |-> number.v]
    ELSE [ok |-> FALSE, value |-> None]

\* StageStatus.to_dict
StageToDict(v) == [value |-> v, description |-> StageDescription(v)]

-----------------------------------------------------------------------------
(* src/extraction.py: pure parts *)

\* the division rounded down
FloorDiv(n, d) == n \div d

\* math.ceil(total_count / 100)
CeilDiv(n, d) == IF n % d = 0 THEN n \div d ELSE (n \div d) + 1

\* get_total_pages: the page descriptors, each identified by its start offset
GetTotalPages(total) ==
    [p \in 1 .. CeilDiv(total, PageSize) |-> (p - 1) * PageSize]

\* ResolvePersonId without the second test (lines 109-111): an empty wrapper
\* value goes on to the request as persons/None
ResolveWithoutSecondTest(ref) ==
    IF ref.kind = "absent" THEN None
    ELSE IF ref.value = None THEN "null" ELSE ref.value

\* fetch_person_data, lines 100-111: the person id of a record, or None.
\* data.get("person_id") is absent, a bare id, or a wrapper {"value": id}
ResolvePersonId(ref) ==
    IF ref.kind = "absent" THEN None
    ELSE LET person_id == ref.value
         IN  IF person_id = None THEN None ELSE person_id

Truthy(s) == s # NoneStr /\ s # << >>

\* get_person_address
GetPersonAddress(person_data) ==
    Strip(Join(SelectSeq(person_data.address, Truthy), << " " >>))

\* fetch_person_data, lines 124-146: PersonInfo of a person "data" object
BuildPersonInfo(pid, person_data) ==
    [ id |-> pid,
      benefit_id |-> IF Truthy(person_data.benefit_a) THEN person_data.benefit_a
                     ELSE person_data.benefit_b,
      phone_number |-> Join([i \in DOMAIN person_data.phone |->
                                RemoveChar(person_data.phone[i], "-")], CommaSpace),
      email |-> Join(person_data.email, CommaSpace),
      address |-> GetPersonAddress(person_data) ]

\* fetch_deal_data, lines 229-233
OutcomeStatus(status) ==
    IF status = "won" THEN "WON" ELSE IF status = "lost" THEN "LOST" ELSE ""

\* fetch_deal_data, lines 223-237: DealInfo of a deal "data" object
BuildDealInfo(did, deal_data) ==
    [ id |-> did,
      stage_status |-> StageFromNumber(deal_data.stage_order_nr).value,
      status |-> OutcomeStatus(deal_data.status),
      assigned_to |-> deal_data.user_name,
      updated_at |-> deal_data.update_time,
      name |-> deal_data.person_name ]

\* save_data_to_mongodb, lines 172-184: the fields written to the Person document
PersonFields(data, person_info, deal_info) ==
    [ benefit_id |-> person_info.benefit_id,
      phone_number |-> person_info.phone_number,
      updated_at |-> data.update_time,
      email |-> person_info.email,
      stage_status |-> StageToDict(deal_info.stage_status),
      won_lost |-> deal_info.status,
      assigned_to |-> deal_info.assigned_to,
      name |-> deal_info.name,
      address |-> person_info.address ]

\* save_data_to_mongodb, lines 194-203: the fields written to the Deal document
DealFields(person_info, deal_info) ==
    [ person_id |-> person_info.id,
      stage_status |-> StageToDict(deal_info.stage_status),
      status |-> deal_info.status,
      assigned_to |-> deal_info.assigned_to,
      updated_at |-> deal_info.updated_at,
      name |-> deal_info.name ]

\* PersonFilter keyed by the deal: one Person document per deal
PersonFilterByDeal(data, person_info) == data.id

\* save_data_to_mongodb, line 188: person_filter = {"_id": person_info.id}
PersonFilter(data, person_info) == person_info.id

\* save_data_to_mongodb, line 193: deal_filter = {"_id": deal_id}
DealFilter(data, person_info) == data.id

-----------------------------------------------------------------------------
(* The retry wrapper: @retry(stop=stop_after_attempt(3), wait=wait_fixed(300)) *)

\* the retry predicate: none is given, so tenacity's default, which retries on
\* every Exception
RetriesOn(exc) == TRUE

\* what is raised when the attempts are used up: reraise is not set, so a
\* RetryError wrapping the last attempt
RaisedWhenStopped(exc) == "RetryError"

\* the wrapper's decision after attempt number `attempt` raised exc
RetryVerdict(attempt, exc) ==
    IF ~RetriesOn(exc) THEN [again |-> FALSE, raise |-> exc]
    ELSE IF attempt >= StopAfterAttempt
         THEN [again |-> FALSE, raise |-> RaisedWhenStopped(exc)]
         ELSE [again |-> TRUE, raise |-> None]

-----------------------------------------------------------------------------
(* src/db/data_access_layer.py *)

EmptyDocs == [x \in {} |-> None]

\* collection.update_one(filter, {"$set": update}, upsert=True)
UpdateOne(coll, id, fields) ==
    IF id \in DOMAIN coll
    THEN [coll EXCEPT ![id] =
            [f \in DOMAIN @ \cup DOMAIN fields |->
                IF f \in DOMAIN fields THEN fields[f] ELSE @[f]]]
    ELSE coll @@ (id :> fields)

\* CaughtByInsert without the second except clause
CaughtOnlyDuplicateKey(exc) == exc = "DuplicateKeyError"

\* the except clauses: DuplicateKeyError, then Exception
CaughtByInsert(exc) == exc = "DuplicateKeyError" \/ exc = "Exception"

\* insert_or_update_document: exc is what update_one raises (None: nothing)
InsertOrUpdateDocument(coll, id, fields, exc) ==
    IF exc = None THEN [coll |-> UpdateOne(coll, id, fields), raised |-> None]
    ELSE [coll |-> coll, raised |-> IF CaughtByInsert(exc) THEN None ELSE exc]

-----------------------------------------------------------------------------
(* src/extraction.py: the page task get_deals *)

NoInfo == [id |-> None]

FreshTask ==
    [ pc |-> "limiter_page", attempt |-> 1, inner |-> 0, idx |-> 0,
      person_info |-> NoInfo, deal_info |-> NoInfo, handled |-> << >>,
      writes |-> 0, err |-> None, grant |-> FALSE, allTO |-> TRUE, innerTO |-> TRUE ]

Settled(t) == t.pc \in {"done", "failed", "cancelled"}

\* a coroutine that has ended (returned, raised, was cancelled) has no locals
\* left: what stays is how it ended and what it had done by then
Ended(t, pc, err) ==
    [FreshTask EXCEPT !.pc = pc, !.err = err, !.idx = t.idx,
                      !.handled = t.handled, !.writes = t.writes]

\* whether a response with this status raises instead of being parsed:
\* get_total_pages and get_deals test status_code != 200 and raise_for_status;
\* fetch_person_data and fetch_deal_data go straight to response.json()
RaisesForStatus(kind, status) == kind \in {"probe", "listing"} /\ status # 200

\* get_deals, lines 88-92: the except httpx.ReadTimeout handler formats
\* data.get('id'); data is the loop variable, unbound before the first record
GetDealsHandler(exc, t) ==
    IF exc = "ReadTimeout"
    THEN IF t.idx = 0 THEN "UnboundLocalError" ELSE "ReadTimeout"
    ELSE exc

\* fetch_person_data, lines 147-151, and fetch_deal_data, lines 238-242: the
\* handler logs an id that is bound and re-raises
InnerHandler(exc) == exc

NoEffect(t) == [t |-> t, retried |-> {}, exhausted |-> {}]

\* an attempt of get_deals raises exc into its retry wrapper
PageRaise(t, exc, timedOut) ==
    LET v == RetryVerdict(t.attempt, exc) IN
    IF v.again
    THEN [ t |-> [FreshTask EXCEPT !.attempt = t.attempt + 1,
                                   !.allTO = t.allTO /\ timedOut],
           retried |-> {<< "get_deals", exc, timedOut >>},
           exhausted |-> {} ]
    ELSE [ t |-> Ended(t, "failed", v.raise),
           retried |-> {},
           exhausted |-> IF t.allTO /\ timedOut /\ t.attempt >= StopAfterAttempt
                         THEN {<< "get_deals", v.raise >>} ELSE {} ]

\* an attempt of fetch_person_data or fetch_deal_data (op) raises exc into its
\* retry wrapper; what the wrapper raises goes through get_deals
InnerRaise(t, op, exc, timedOut) ==
    LET v == RetryVerdict(t.inner, exc) IN
    IF v.again
    THEN [ t |-> [t EXCEPT !.inner = @ + 1,
                           !.innerTO = @ /\ timedOut,
                           !.grant = FALSE,
                           !.pc = IF op = "fetch_person_data" THEN "limiter_person"
                                  ELSE "limiter_deal"],
           retried |-> {<< op, exc, timedOut >>},
           exhausted |-> {} ]
    ELSE LET out == PageRaise(t, GetDealsHandler(v.raise, t), FALSE)
         IN  [out EXCEPT !.exhausted =
                 @ \cup (IF t.innerTO /\ timedOut /\ t.inner >= StopAfterAttempt
                         THEN {<< op, v.raise >>} ELSE {})]

RECURSIVE Advance(_, _, _)
\* get_deals, lines 80-87: the loop from record i up to the next await.  A
\* record without a person id is logged and skipped inside fetch_person_data
\* before anything is awaited.
Advance(t, recs, i) ==
    IF i > Len(recs)
    THEN Ended([t EXCEPT !.idx = Len(recs)], "done", None)
    ELSE IF ResolvePersonId(recs[i].person_id) = None
         THEN Advance([t EXCEPT !.handled = Append(@, "skipped")], recs, i + 1)
         ELSE [t EXCEPT !.pc = "limiter_person", !.idx = i, !.inner = 1,
                        !.innerTO = TRUE, !.person_info = NoInfo,
                        !.deal_info = NoInfo, !.grant = FALSE]

Records(p) == Listing(remote, pages[p])

Call(kind, p, i) == << kind, p, i >>

Bump(c) ==
    IF c \in DOMAIN reqCount THEN [reqCount EXCEPT ![c] = @ + 1]
    ELSE reqCount @@ (c :> 1)

Running == runPc \in {"gather", "closing"}

\* a response other than a plain 200 is one injected failure
Inject(outcome) ==
    IF outcome = "ok" THEN faults' = faults
    ELSE faults < MaxFaults /\ faults' = faults + 1

\* the task's step takes effect; a task that fails wakes gather
Commit(p, eff) ==
    /\ task' = [task EXCEPT ![p] = eff.t]
    /\ retried' = retried \cup eff.retried
    /\ exhausted' = exhausted \cup eff.exhausted
    /\ IF eff.t.pc = "failed" /\ runPc = "gather"
       THEN runPc' = "closing" /\ runErr' = eff.t.err
       ELSE UNCHANGED << runPc, runErr >>

\* the request of a task leaves: it is counted, and it uses up the task's grant
Send(p, kind, i) ==
    /\ reqCount' = Bump(Call(kind, p, i))
    /\ unthrottled' = IF task[p].grant THEN unthrottled ELSE unthrottled \cup {kind}

\* await LIMITER.wait()
LimiterWait(p) ==
    /\ Running
    /\ task[p].pc \in {"limiter_page", "limiter_person", "limiter_deal"}
    /\ task' = [task EXCEPT ![p].grant = TRUE,
                            ![p].pc = CASE task[p].pc = "limiter_page" -> "get_page"
                                        [] task[p].pc = "limiter_person" -> "get_person"
                                        [] task[p].pc = "limiter_deal" -> "get_deal"]
    /\ UNCHANGED << remote, mainPc, stepLog, runPc, runErr, pages, store, reqCount,
                    unthrottled, retried, exhausted, lenient, swallowed, atRaise,
                    faults, runNo, prevStore, clean >>
    /\ UNCHANGED << total_count, recon >>

\* get_deals, lines 66-78: the listing request and its response
GetPage(p, outcome) ==
    LET t == [task[p] EXCEPT !.grant = FALSE]
        status == IF outcome = "non200" THEN 500 ELSE 200
    IN
    /\ Running
    /\ task[p].pc = "get_page"
    /\ Inject(outcome)
    /\ Send(p, "listing", 0)
    /\ Commit(p,
         IF outcome = "timeout"
         THEN PageRaise(t, GetDealsHandler("ReadTimeout", t), TRUE)
         ELSE IF RaisesForStatus("listing", status)
         THEN PageRaise(t, GetDealsHandler("HTTPStatusError", t), FALSE)
         ELSE IF outcome = "non200" \/ Records(p) = << >>
         THEN NoEffect(Ended(t, "done", None))
         ELSE NoEffect(Advance(t, Records(p), 1)))
    /\ lenient' = IF status # 200 /\ ~RaisesForStatus("listing", status)
                  THEN lenient \cup {"listing"} ELSE lenient
    /\ clean' = [clean EXCEPT !.cur = @ /\ status = 200]
    /\ UNCHANGED << remote, mainPc, stepLog, pages, store, swallowed, atRaise,
                    runNo, prevStore >>
    /\ UNCHANGED << total_count, recon >>

\* fetch_person_data, lines 113-151: the person request and its response
GetPerson(p, outcome) ==
    LET t == [task[p] EXCEPT !.grant = FALSE]
        data == Records(p)[t.idx]
        pid == ResolvePersonId(data.person_id)
        status == IF outcome = "non200" THEN 404 ELSE 200
    IN
    /\ Running
    /\ task[p].pc = "get_person"
    /\ Inject(outcome)
    /\ Send(p, "person", t.idx)
    /\ Commit(p,
         IF outcome = "timeout"
         THEN InnerRaise(t, "fetch_person_data", InnerHandler("ReadTimeout"), TRUE)
         ELSE IF RaisesForStatus("person", status)
         THEN InnerRaise(t, "fetch_person_data", InnerHandler("HTTPStatusError"), FALSE)
         ELSE IF outcome = "non200"
         THEN NoEffect(Advance([t EXCEPT !.handled = Append(@, "skipped")],
                               Records(p), t.idx + 1))
         ELSE NoEffect([t EXCEPT !.person_info = BuildPersonInfo(pid, PersonDetail(pid)),
                                 !.pc = "limiter_deal", !.inner = 1, !.innerTO = TRUE]))
    /\ lenient' = IF status # 200 /\ ~RaisesForStatus("person", status)
                  THEN lenient \cup {"person"} ELSE lenient
    /\ clean' = [clean EXCEPT !.cur = @ /\ status = 200]
    /\ UNCHANGED << remote, mainPc, stepLog, pages, store, swallowed, atRaise,
                    runNo, prevStore >>
    /\ UNCHANGED << total_count, recon >>

\* fetch_deal_data, lines 212-242: the deal request and its response
GetDeal(p, outcome) ==
    LET t == [task[p] EXCEPT !.grant = FALSE]
        data == Records(p)[t.idx]
        deal_data == DealDetail(data.id)
        status == IF outcome = "non200" THEN 404 ELSE 200
    IN
    /\ Running
    /\ task[p].pc = "get_deal"
    /\ Inject(outcome)
    /\ Send(p, "deal", t.idx)
    /\ Commit(p,
         IF outcome = "timeout"
         THEN InnerRaise(t, "fetch_deal_data", InnerHandler("ReadTimeout"), TRUE)
         ELSE IF RaisesForStatus("deal", status)
         THEN InnerRaise(t, "fetch_deal_data", InnerHandler("HTTPStatusError"), FALSE)
         ELSE IF outcome = "non200"
         THEN NoEffect(Advance([t EXCEPT !.handled = Append(@, "nodeal")],
                               Records(p), t.idx + 1))
         ELSE IF ~StageFromNumber(deal_data.stage_order_nr).ok
         THEN InnerRaise(t, "fetch_deal_data", InnerHandler("ValueError"), FALSE)
         ELSE NoEffect([t EXCEPT !.deal_info = BuildDealInfo(data.id, deal_data),
                                 !.pc = "upsert_person"]))
    /\ lenient' = IF status # 200 /\ ~RaisesForStatus("deal", status)
                  THEN lenient \cup {"deal"} ELSE lenient
    /\ clean' = [clean EXCEPT !.cur = @ /\ status = 200]
    /\ UNCHANGED << remote, mainPc, stepLog, pages, store, swallowed, atRaise,
                    runNo, prevStore >>
    /\ UNCHANGED << total_count, recon >>

StoreOutcome(exc) ==
    IF exc = None THEN faults' = faults
    ELSE faults < MaxFaults /\ faults' = faults + 1

\* save_data_to_mongodb, lines 186-189: the write of the Person document
UpsertPerson(p, exc) ==
    LET t == task[p]
        data == Records(p)[t.idx]
        r == InsertOrUpdateDocument(store.persons, PersonFilter(data, t.person_info),
                                    PersonFields(data, t.person_info, t.deal_info), exc)
    IN
    /\ Running
    /\ t.pc = "upsert_person"
    /\ StoreOutcome(exc)
    /\ store' = [store EXCEPT !.persons = r.coll]
    /\ swallowed' = IF exc # None /\ r.raised = None
                    THEN swallowed \cup {<< "persons", exc >>} ELSE swallowed
    /\ Commit(p,
         IF r.raised = None
         THEN NoEffect([t EXCEPT !.pc = "upsert_deal", !.writes = @ + 1])
         ELSE PageRaise(t, GetDealsHandler(r.raised, t), FALSE))
    /\ clean' = [clean EXCEPT !.cur = @ /\ exc = None]
    /\ UNCHANGED << remote, mainPc, stepLog, pages, reqCount, unthrottled, lenient,
                    atRaise, runNo, prevStore >>
    /\ UNCHANGED << total_count, recon >>

\* save_data_to_mongodb, lines 191-204: the write of the Deal document
UpsertDeal(p, exc) ==
    LET t == task[p]
        data == Records(p)[t.idx]
        r == InsertOrUpdateDocument(store.deals, DealFilter(data, t.person_info),
                                    DealFields(t.person_info, t.deal_info), exc)
    IN
    /\ Running
    /\ t.pc = "upsert_deal"
    /\ StoreOutcome(exc)
    /\ store' = [store EXCEPT !.deals = r.coll]
    /\ swallowed' = IF exc # None /\ r.raised = None
                    THEN swallowed \cup {<< "deals", exc >>} ELSE swallowed
    /\ Commit(p,
         IF r.raised = None
         THEN NoEffect(Advance([t EXCEPT !.handled = Append(@, "saved"),
                                         !.writes = @ + 1],
                               Records(p), t.idx + 1))
         ELSE PageRaise(t, GetDealsHandler(r.raised, t), FALSE))
    /\ clean' = [clean EXCEPT !.cur = @ /\ exc = None]
    /\ UNCHANGED << remote, mainPc, stepLog, pages, reqCount, unthrottled, lenient,
                    atRaise, runNo, prevStore >>
    /\ UNCHANGED << total_count, recon >>

-----------------------------------------------------------------------------
(* src/main.py and extraction.run() *)

Steps == << "extraction", "mailers", "purls", "digisheet" >>

At(i, phase) == [step |-> i, phase |-> phase]

\* MainNext with each call wrapped in a try that logs and goes on
MainNextLogsAndGoesOn(i, failed) ==
    IF i = Len(Steps) THEN At(i, IF failed THEN "crashed" ELSE "exit")
    ELSE At(i + 1, "before")

\* main.py, lines 23-26: four calls in a row at module level, with no try
\* around any of them
MainNext(i, failed) ==
    IF failed THEN At(i, "crashed")
    ELSE IF i = Len(Steps) THEN At(i, "exit")
    ELSE At(i + 1, "before")

\* the history variables tell of the extraction run in progress: they start
\* empty again when its event loop is closed
NoHistory ==
    /\ reqCount' = EmptyDocs
    /\ unthrottled' = {}
    /\ retried' = {}
    /\ exhausted' = {}
    /\ lenient' = {}
    /\ swallowed' = {}
    /\ atRaise' = {}

\* main.py, line 23: asyncio.run(extract_data()) starts run()
StartExtraction ==
    /\ mainPc = At(1, "before")
    /\ mainPc' = At(1, "in")
    /\ stepLog' = Append(stepLog, << "start", Steps[1] >>)
    /\ runPc' = "probe"
    /\ UNCHANGED << remote, runErr, pages, task, store, reqCount, unthrottled,
                    retried, exhausted, lenient, swallowed, atRaise, faults, runNo,
                    prevStore, clean >>
    /\ UNCHANGED << total_count, recon >>

\* run(), lines 247-255, with get_total_pages: the summary request is sent
\* with httpx.get, outside the event loop's limiter, and is not retry-wrapped
ProbeResponse(outcome) ==
    LET status == IF outcome = "non200" THEN 500 ELSE 200
        raised == IF outcome = "timeout" THEN "ReadTimeout"
                  ELSE IF RaisesForStatus("probe", status) THEN "HTTPStatusError"
                  ELSE IF outcome = "non200" THEN "KeyError"
                  ELSE None
        deal_pages == GetTotalPages(total_count)
    IN
    /\ runPc = "probe"
    /\ Inject(outcome)
    /\ reqCount' = Bump(Call("probe", 0, 0))
    /\ unthrottled' = unthrottled \cup {"probe"}
    /\ lenient' = IF status # 200 /\ ~RaisesForStatus("probe", status)
                  THEN lenient \cup {"probe"} ELSE lenient
    /\ clean' = [clean EXCEPT !.cur = @ /\ status = 200]
    /\ IF raised = None
       THEN /\ pages' = deal_pages
            /\ task' = [p \in DOMAIN deal_pages |-> FreshTask]
            /\ runPc' = "gather"
            /\ runErr' = runErr
       ELSE /\ runPc' = "raised"
            /\ runErr' = raised
            /\ UNCHANGED << pages, task >>
    /\ UNCHANGED << remote, mainPc, stepLog, store, retried, exhausted, swallowed,
                    atRaise, runNo, prevStore >>
    /\ UNCHANGED << total_count, recon >>

\* run(), line 258, and main.py line 23: gather returns when every page task
\* has returned; run() and asyncio.run return
RunReturns ==
    /\ runPc = "gather"
    /\ \A p \in DOMAIN task : task[p].pc = "done"
    /\ runPc' = "done"
    /\ mainPc' = MainNext(1, FALSE)
    /\ stepLog' = Append(stepLog, << "end", Steps[1] >>)
    /\ NoHistory
    /\ UNCHANGED << remote, runErr, pages, task, store, faults, runNo, prevStore,
                    clean >>
    /\ UNCHANGED << total_count, recon >>

\* run(), lines 258-261: gather raised the first failure into run(); the
\* client is closed and run() re-raises
RunRaise ==
    /\ runPc = "closing"
    /\ runPc' = "raised"
    /\ atRaise' = {p \in DOMAIN task : ~Settled(task[p])}
    /\ UNCHANGED << remote, mainPc, stepLog, runErr, pages, task, store, reqCount,
                    unthrottled, retried, exhausted, lenient, swallowed, faults,
                    runNo, prevStore, clean >>
    /\ UNCHANGED << total_count, recon >>

\* main.py, line 23: asyncio.run cancels the tasks that are left and raises
\* what run() raised
LoopShutdown ==
    /\ runPc = "raised"
    /\ mainPc = At(1, "in")
    /\ task' = [p \in DOMAIN task |->
                  IF Settled(task[p]) THEN task[p]
                  ELSE Ended(task[p], "cancelled", None)]
    /\ mainPc' = MainNext(1, TRUE)
    /\ stepLog' = Append(stepLog, << "fail", Steps[1] >>)
    /\ NoHistory
    /\ UNCHANGED << remote, runPc, runErr, pages, store, faults, runNo, prevStore,
                    clean >>
    /\ UNCHANGED << total_count, recon >>

\* main.py, lines 24-26: mailers_sheet_update(), purls_sheet_update(),
\* digisheet_sheet_update() is called
StartStep(i) ==
    /\ i > 1
    /\ mainPc = At(i, "before")
    /\ mainPc' = At(i, "in")
    /\ stepLog' = Append(stepLog, << "start", Steps[i] >>)
    /\ UNCHANGED << remote, runPc, runErr, pages, task, store, reqCount,
                    unthrottled, retried, exhausted, lenient, swallowed, atRaise,
                    faults, runNo, prevStore, clean >>
    /\ UNCHANGED << total_count, recon >>

\* the reconciliation's main() returns, or raises (no spreadsheet of that
\* name, a service error): none of the three catches anything
EndStep(i, ok) ==
    /\ i > 1
    /\ mainPc = At(i, "in")
    /\ mainPc' = MainNext(i, ~ok)
    /\ stepLog' = Append(stepLog, << IF ok THEN "end" ELSE "fail", Steps[i] >>)
    /\ UNCHANGED << remote, runPc, runErr, pages, task, store, reqCount,
                    unthrottled, retried, exhausted, lenient, swallowed, atRaise,
                    faults, runNo, prevStore, clean >>
    /\ UNCHANGED << total_count, recon >>

\* the script is started again (main.py is a cron job) after a run whose
\* extraction went through with every response a 200 and every write stored;
\* only the remote data and the store outlive the process
Rerun ==
    /\ mainPc.phase \in {"exit", "crashed"}
    /\ runPc = "done"
    /\ clean.cur
    /\ runNo < MaxRuns
    /\ runNo' = runNo + 1
    /\ prevStore' = store
    /\ clean' = [prev |-> clean.cur /\ runPc = "done", cur |-> TRUE]
    /\ mainPc' = At(1, "before")
    /\ stepLog' = << >>
    /\ runPc' = "idle"
    /\ runErr' = None
    /\ pages' = << >>
    /\ task' = << >>
    /\ NoHistory
    /\ UNCHANGED << remote, store, faults >>
    /\ UNCHANGED << total_count, recon >>

-----------------------------------------------------------------------------

\* no reconciliation script is running
NoRecon ==
    /\ variant = None
    /\ cursor = << >>
    /\ rows = << >>
    /\ index = EmptyDocs
    /\ sheet_data = << >>
    /\ results = << >>
    /\ batch_data = << >>
    /\ reconPc = "idle"

PageOutcomes == {"ok", "timeout", "non200"}
DetailOutcomes == {"ok", "timeout", "non200"}
StoreExceptions == {None, "DuplicateKeyError", "Exception"}

\* no extraction is running and none has run in this process
NoExtraction ==
    /\ mainPc = At(1, "before")
    /\ stepLog = << >>
    /\ runPc = "idle"
    /\ runErr = None
    /\ pages = << >>
    /\ task = << >>
    /\ reqCount = EmptyDocs
    /\ unthrottled = {}
    /\ retried = {}
    /\ exhausted = {}
    /\ lenient = {}
    /\ swallowed = {}
    /\ atRaise = {}
    /\ faults = 0
    /\ runNo = 1
    /\ prevStore = [persons |-> EmptyDocs, deals |-> EmptyDocs]
    /\ clean = [prev |-> FALSE, cur |-> TRUE]

\* the script is started for the first time, on an empty store
FirstStart ==
    /\ remote \in Datasets
    /\ store = [persons |-> EmptyDocs, deals |-> EmptyDocs]
    /\ NoExtraction
    /\ NoRecon

Init ==
    /\ FirstStart
    /\ total_count = TotalCount(remote)

Next ==
    \/ StartExtraction
    \/ \E o \in PageOutcomes : ProbeResponse(o)
    \/ \E p \in DOMAIN task : LimiterWait(p)
    \/ \E p \in DOMAIN task, o \in PageOutcomes : GetPage(p, o)
    \/ \E p \in DOMAIN task, o \in DetailOutcomes : GetPerson(p, o)
    \/ \E p \in DOMAIN task, o \in DetailOutcomes : GetDeal(p, o)
    \/ \E p \in DOMAIN task, e \in StoreExceptions : UpsertPerson(p, e)
    \/ \E p \in DOMAIN task, e \in StoreExceptions : UpsertDeal(p, e)
    \/ RunReturns
    \/ RunRaise
    \/ LoopShutdown
    \/ \E i \in DOMAIN Steps : StartStep(i)
    \/ \E i \in DOMAIN Steps, ok \in BOOLEAN : EndStep(i, ok)
    \/ Rerun

Spec == Init /\ [][Next]_vars

-----------------------------------------------------------------------------
(* get_total_pages on every total_count: run() up to the page descriptors *)

PagesInit ==
    /\ FirstStart
    /\ total_count \in 0 .. MaxTotalCount

PagesNext ==
    \/ StartExtraction
    \/ \E o \in PageOutcomes : ProbeResponse(o)

PagesSpec == PagesInit /\ [][PagesNext]_vars

-----------------------------------------------------------------------------
(* The reconciliation scripts: src/mailers.py, src/purls.py, src/digisheet.py. *)
(* Each is synchronous: load_mongodb_data, the reading of the sheet ranges,   *)
(* search_data and update_sheet_with_results follow one another.              *)

Variants == {"mailers", "purls", "digisheet"}

\* value is None, whether a name or a text was expected
IsNone(value) == value = None \/ NoneStr = value

\* d.get(key, default)
Get(d, key, default) == IF key \in DOMAIN d THEN d[key] ELSE default

\* d[key] = value
Put(d, key, value) ==
    [k \in DOMAIN d \cup {key} |-> IF k = key THEN value ELSE d[k]]

RECURSIVE SplitFrom(_, _, _)
SplitFrom(s, sep, part) ==
    IF s = << >> THEN << part >>
    ELSE IF StartsWith(s, sep)
         THEN << part >> \o SplitFrom(SubSeq(s, Len(sep) + 1, Len(s)), sep, << >>)
         ELSE SplitFrom(Tail(s), sep, Append(part, Head(s)))

\* s.split(sep)
Split(s, sep) == SplitFrom(s, sep, << >>)

\* datetime.strptime(text, "%Y-%m-%d %H:%M:%S"): the instant, counted in
\* seconds (from 2000, on months of 31 days: the order of instants is kept)
Strptime(t) ==
    (((((t[1] - 2000) * 12 + (t[2] - 1)) * 31 + (t[3] - 1)) * 24 + t[4]) * 60
        + t[5]) * 60 + t[6]

\* a document of the persons collection, as collection.find() yields it
Doc(id) == ("_id" :> id) @@ store.persons[id]

\* the result of a lookup that found nothing (None)
NoMatch == EmptyDocs

\* mailers with the stored phone_number taken whole
PhoneNumbersWhole(doc) == << Get(doc, "phone_number", << >>) >>

\* mailers.load_mongodb_data, line 35
PhoneNumbers(doc) == Split(Get(doc, "phone_number", << >>), CommaSpace)

\* mailers.load_mongodb_data, lines 36-39: the keys a document is filed under
MailersKeys(doc) ==
    LET phone_numbers == PhoneNumbers(doc)
    IN  SelectSeq([i \in DOMAIN phone_numbers |-> CleanPhone(phone_numbers[i])],
                  Truthy)

RECURSIVE PutAll(_, _, _)
PutAll(d, keys, value) ==
    IF keys = << >> THEN d
    ELSE PutAll(Put(d, Head(keys), value), Tail(keys), value)

RECURSIVE MailersLoad(_, _)
\* mailers.load_mongodb_data, lines 33-45
MailersLoad(docs, phone_dict) ==
    IF docs = << >> THEN phone_dict
    ELSE MailersLoad(Tail(docs), PutAll(phone_dict, MailersKeys(Head(docs)), Head(docs)))

\* purls.load_mongodb_data, line 36: the key is the stored benefit_id as it is
PurlsKey(doc) == Get(doc, "benefit_id", << >>)

RECURSIVE PurlsLoad(_, _)
\* purls.load_mongodb_data, lines 34-44
PurlsLoad(docs, benefit_dict) ==
    IF docs = << >> THEN benefit_dict
    ELSE LET doc == Head(docs)
             benefit_id == PurlsKey(doc)
         IN  PurlsLoad(Tail(docs),
                       IF Truthy(benefit_id) THEN Put(benefit_dict, benefit_id, doc)
                       ELSE benefit_dict)

\* the comparison left out: a document always replaces the entry of its key
NewerOrNot(updated_at, entry) == TRUE

\* digisheet.load_mongodb_data, lines 41 and 48: updated_at > entry["updated_at"]
Newer(updated_at, entry) == updated_at > entry.updated_at

\* digisheet.load_mongodb_data, lines 40-45 and 47-52
KeepLatest(dict, key, doc, updated_at) ==
    IF Truthy(key) /\ (key \notin DOMAIN dict \/ Newer(updated_at, dict[key]))
    THEN Put(dict, key, [data |-> doc, updated_at |-> updated_at])
    ELSE dict

RECURSIVE DigisheetLoad(_, _)
\* digisheet.load_mongodb_data, lines 32-57
DigisheetLoad(docs, dicts) ==
    IF docs = << >> THEN dicts
    ELSE LET doc == Head(docs)
             email == CleanEmail(Get(doc, "email", NoneStr))
             phone == CleanPhone(Get(doc, "phone_number", NoneStr))
             updated_at == Strptime(doc.updated_at)
         IN  DigisheetLoad(Tail(docs),
                 [ email_dict |-> KeepLatest(dicts.email_dict, email, doc, updated_at),
                   phone_dict |-> KeepLatest(dicts.phone_dict, phone, doc, updated_at) ])

\* load_mongodb_data of each script, on the documents in the cursor's order
LoadMongodbData(v, docs) ==
    CASE v = "mailers" -> [phone_dict |-> MailersLoad(docs, EmptyDocs)]
      [] v = "purls" -> [benefit_dict |-> PurlsLoad(docs, EmptyDocs)]
      [] v = "digisheet" ->
            DigisheetLoad(docs, [email_dict |-> EmptyDocs, phone_dict |-> EmptyDocs])

\* enumerate(rows, start=2): the sheet row of the i-th value row
RowNumber(i) == i + 1

\* mailers.main, lines 171-180.  A row is the cells the scripts read from
\* it: email, phone, benefit_id; NoneStr for a cell the row does not reach
MailersRow(i, row) ==
    IF row.phone = NoneStr THEN << >>
    ELSE LET phone == CleanPhone(row.phone)
         IN  IF Truthy(phone)
             THEN << [row |-> RowNumber(i), phone_number |-> phone] >>
             ELSE << >>

\* purls.main, lines 165-174
PurlsRow(i, row) ==
    IF row.benefit_id = NoneStr THEN << >>
    ELSE LET benefit_id == CleanBenefitId(row.benefit_id)
         IN  IF Truthy(benefit_id)
             THEN << [row |-> RowNumber(i), benefit_id |-> benefit_id] >>
             ELSE << >>

\* digisheet.main, lines 174-185
DigisheetRow(i, row) ==
    LET email == CleanEmail(row.email)
        phone == CleanPhone(row.phone)
    IN  IF Truthy(email) \/ Truthy(phone)
        THEN << [row |-> RowNumber(i), email |-> email, phone_number |-> phone] >>
        ELSE << >>

RECURSIVE ProcessRows(_, _, _)
\* main() of each script: the rows kept for the search, from row i on
ProcessRows(v, sheet_rows, i) ==
    IF i > Len(sheet_rows) THEN << >>
    ELSE (CASE v = "mailers" -> MailersRow(i, sheet_rows[i])
            [] v = "purls" -> PurlsRow(i, sheet_rows[i])
            [] v = "digisheet" -> DigisheetRow(i, sheet_rows[i]))
         \o ProcessRows(v, sheet_rows, i + 1)

\* the fields of a Person document whose value is a dict: stage_status, the
\* to_dict() of save_data_to_mongodb
DictFields == {"stage_status"}

\* mailers, purls: extract_description(match.get(key, ""))
ExtractDescription(match, key) ==
    IF key \in DOMAIN match /\ key \in DictFields
       /\ "description" \in DOMAIN match[key]
    THEN match[key].description
    ELSE Get(match, key, "")

\* digisheet: extract_description(match.get(key, "")), which makes a str of
\* what is not a dict and "" of None
ExtractDescriptionStr(match, key) ==
    IF key \in DOMAIN match /\ key \in DictFields
    THEN match[key].description
    ELSE LET value == Get(match, key, "")
         IN  IF IsNone(value) THEN "" ELSE value

\* the name purls.search_data reads the outcome under (line 63)
PurlsOutcomeField == "won/lost"

\* search_data of each script: the result of a row that has a match
Hit(v, row_data, match) ==
    CASE v = "mailers" ->
            [ row |-> row_data.row,
              benefit_id |-> Get(match, "benefit_id", << >>),
              stage_status |-> ExtractDescription(match, "stage_status"),
              assigned_to |-> Get(match, "assigned_to", ""),
              name |-> Get(match, "name", ""),
              address |-> Get(match, "address", << >>),
              email |-> Get(match, "email", << >>) ]
            @@ ("won/lost" :> ExtractDescription(match, "won_lost"))
      [] v = "purls" ->
            [ row |-> row_data.row,
              phone_number |-> Get(match, "phone_number", << >>),
              email |-> Get(match, "email", << >>),
              stage_status |-> ExtractDescription(match, "stage_status"),
              assigned_to |-> Get(match, "assigned_to", ""),
              name |-> Get(match, "name", ""),
              address |-> Get(match, "address", << >>) ]
            @@ ("won/lost" :> ExtractDescription(match, PurlsOutcomeField))
      [] v = "digisheet" ->
            [ row |-> row_data.row,
              stage_status |-> ExtractDescriptionStr(match, "stage_status"),
              assigned_to |-> ExtractDescriptionStr(match, "assigned_to") ]
            @@ ("won/lost" :> ExtractDescriptionStr(match, "won_lost"))

\* the output fields of a result
OutputFields(v) ==
    CASE v = "mailers" -> {"benefit_id", "stage_status", "won/lost", "assigned_to",
                           "name", "address", "email"}
      [] v = "purls" -> {"phone_number", "email", "stage_status", "won/lost",
                         "assigned_to", "name", "address"}
      [] v = "digisheet" -> {"stage_status", "won/lost", "assigned_to"}

\* a miss that leaves the output fields empty
MissBlank(v, row_data) ==
    [f \in OutputFields(v) \cup {"row"} |-> IF f = "row" THEN row_data.row ELSE ""]

\* search_data of each script: the result of a row without a match
Miss(v, row_data) ==
    [f \in OutputFields(v) \cup {"row"} |-> IF f = "row" THEN row_data.row ELSE "N/A"]

\* search_data of each script: the document the row's key finds, or nothing
Lookup(v, dicts, row_data) ==
    CASE v = "mailers" -> Get(dicts.phone_dict, row_data.phone_number, NoMatch)
      [] v = "purls" -> Get(dicts.benefit_dict, row_data.benefit_id, NoMatch)
      [] v = "digisheet" ->
            IF Truthy(row_data.email) /\ row_data.email \in DOMAIN dicts.email_dict
            THEN dicts.email_dict[row_data.email].data
            ELSE IF Truthy(row_data.phone_number)
                    /\ row_data.phone_number \in DOMAIN dicts.phone_dict
            THEN dicts.phone_dict[row_data.phone_number].data
            ELSE NoMatch

\* search_data of each script
SearchData(v, data, dicts) ==
    [i \in DOMAIN data |->
        LET match == Lookup(v, dicts, data[i])
        IN  IF match # NoMatch THEN Hit(v, data[i], match) ELSE Miss(v, data[i])]

\* update_sheet_with_results: str(value), "" for None
Cell(value) == IF IsNone(value) THEN "" ELSE value

\* the columns of the output range, after the time stamp
Columns(v) ==
    CASE v = "mailers" -> << "benefit_id", "stage_status", "won/lost", "assigned_to",
                             "name", "address", "email" >>
      [] v = "purls" -> << "phone_number", "email", "stage_status", "won/lost",
                           "assigned_to", "name", "address" >>
      [] v = "digisheet" -> << "stage_status", "won/lost", "assigned_to" >>

\* update_sheet_with_results: the batch of one range per result
BatchData(v, res) ==
    [i \in DOMAIN res |->
        [ range |-> res[i].row,
          values |-> << "dt_string" >>
                     \o [c \in DOMAIN Columns(v) |-> Cell(res[i][Columns(v)[c]])] ]]

-----------------------------------------------------------------------------
(* A reconciliation script run on its own (each has its own entry point), *)
(* on a store extraction has filled and on a sheet                        *)

RECURSIVE Extracted(_, _)
\* the store after save_data_to_mongodb has gone through the records recs
Extracted(recs, st) ==
    IF recs = << >> THEN st
    ELSE LET data == Head(recs)
             pid == ResolvePersonId(data.person_id)
             person_info == BuildPersonInfo(pid, PersonDetail(pid))
             deal_info == BuildDealInfo(data.id, DealDetail(data.id))
         IN  Extracted(Tail(recs),
                 [ persons |-> UpdateOne(st.persons, PersonFilter(data, person_info),
                                         PersonFields(data, person_info, deal_info)),
                   deals |-> UpdateOne(st.deals, DealFilter(data, person_info),
                                       DealFields(person_info, deal_info)) ])

\* the records of SharedContacts at the positions ks, in their order
Chosen(ks) == SelectSeq(SharedContacts, LAMBDA r : \E k \in ks : SharedContacts[k] = r)

ExtractedStores ==
    { Extracted(Chosen(ks), [persons |-> EmptyDocs, deals |-> EmptyDocs]) :
        ks \in {c \in SUBSET DOMAIN SharedContacts : Cardinality(c) <= MaxDocs} }

Chars(a, b, c) == [email |-> a, phone |-> b, benefit_id |-> c]

\* rows a sheet can hold
SheetRows ==
    { Chars(<< " ", "a", "@", "b", ".", "c", " " >>,
            << "5", "5", "5", "-", "1", "2", "3", "-", "4", "5", "6", "7" >>,
            << "P", "U", "R", "L", " ", "7" >>),
      Chars(<< "q", "@", "r", ".", "s" >>,
            << "(", "5", "5", "5", ")", " ", "0", "0", "0", "-", "1", "1", "1", "1" >>,
            << " ", "8", " " >>),
      Chars(<< "n", "o", "t", "-", "a", "n", "-", "e", "m", "a", "i", "l" >>,
            << "1", "2", "3", "4", "5" >>,
            << " ", " " >>),
      Chars(<< "m", "@", "n", ".", "o" >>,
            << "9", "9", "9", "-", "9", "9", "9", "-", "9", "9", "9", "9" >>,
            << "P", "U", "R", "L", " ", "5" >>),
      Chars(NoneStr,
            << "+", "5", "5", "5", ".", "1", "2", "3", ".", "4", "5", "6", "7" >>,
            << "9", "9" >>),
      Chars(NoneStr, NoneStr, NoneStr) }

Sheets == UNION {[1 .. n -> SheetRows] : n \in 1 .. MaxRows}

\* the orders in which a cursor can yield the documents with the _ids ids
Orders(ids) ==
    {o \in [1 .. Cardinality(ids) -> ids] : \A i, j \in DOMAIN o : o[i] = o[j] => i = j}

ReconInit ==
    /\ remote = "A"
    /\ total_count = TotalCount(remote)
    /\ NoExtraction
    /\ store \in ExtractedStores
    /\ variant \in Variants
    /\ rows \in Sheets
    /\ cursor = << >>
    /\ index = EmptyDocs
    /\ sheet_data = << >>
    /\ results = << >>
    /\ batch_data = << >>
    /\ reconPc = "load"

\* unchanged by a reconciliation script: it reads the store and writes the sheet
Extraction ==
    << remote, mainPc, stepLog, runPc, runErr, pages, task, store, reqCount,
       unthrottled, retried, exhausted, lenient, swallowed, atRaise, faults,
       runNo, prevStore, clean, total_count >>

\* main(): load_mongodb_data(), collection.find() yielding in some order
LoadData(order) ==
    /\ reconPc = "load"
    /\ cursor' = order
    /\ index' = LoadMongodbData(variant, [i \in DOMAIN order |-> Doc(order[i])])
    /\ reconPc' = "read"
    /\ UNCHANGED << Extraction, variant, rows, sheet_data, results, batch_data >>

\* main(): batch_get_values and the loop over the rows
ReadSheet ==
    /\ reconPc = "read"
    /\ sheet_data' = ProcessRows(variant, rows, 1)
    /\ reconPc' = "search"
    /\ UNCHANGED << Extraction, variant, cursor, rows, index, results, batch_data >>

\* main(): search_data()
Search ==
    /\ reconPc = "search"
    /\ results' = SearchData(variant, sheet_data, index)
    /\ reconPc' = "update"
    /\ UNCHANGED << Extraction, variant, cursor, rows, index, sheet_data, batch_data >>

\* main(): update_sheet_with_results()
UpdateSheetWithResults ==
    /\ reconPc = "update"
    /\ batch_data' = BatchData(variant, results)
    /\ reconPc' = "done"
    /\ UNCHANGED << Extraction, variant, cursor, rows, index, sheet_data, results >>

ReconNext ==
    \/ \E order \in Orders(DOMAIN store.persons) : LoadData(order)
    \/ ReadSheet
    \/ Search
    \/ UpdateSheetWithResults

ReconSpec == ReconInit /\ [][ReconNext]_vars

-----------------------------------------------------------------------------
(* What the claims speak of *)

\* a person reference that is missing or does not resolve: no person_id, or a
\* wrapper whose value is empty
Unresolvable(ref) ==
    ref.kind = "absent" \/ (ref.kind = "wrapped" /\ ref.value = None)

PagesOf(ds) == GetTotalPages(TotalCount(ds))

\* the records of the data set with a resolvable person, as <<page, index>>
Resolvable(ds) ==
    {c \in UNION {{<< p, i >> : i \in DOMAIN Listing(ds, PagesOf(ds)[p])} :
                     p \in DOMAIN PagesOf(ds)} :
        ~Unresolvable(Listing(ds, PagesOf(ds)[c[1]])[c[2]].person_id)}

RecordAt(ds, c) == Listing(ds, PagesOf(ds)[c[1]])[c[2]]

\* the records that refer to person pid
RefersTo(ds, pid) == {c \in Resolvable(ds) : RecordAt(ds, c).person_id.value = pid}

\* the Person document that record c gives rise to
PersonDocOf(ds, c) ==
    LET data == RecordAt(ds, c)
        pid == data.person_id.value
    IN  PersonFields(data, BuildPersonInfo(pid, PersonDetail(pid)),
                     BuildDealInfo(data.id, DealDetail(data.id)))

\* the Deal document that record c gives rise to
DealDocOf(ds, c) ==
    LET data == RecordAt(ds, c)
        pid == data.person_id.value
    IN  DealFields(BuildPersonInfo(pid, PersonDetail(pid)),
                   BuildDealInfo(data.id, DealDetail(data.id)))

RecordStages ==
    {"limiter_person", "get_person", "limiter_deal", "get_deal",
     "upsert_person", "upsert_deal"}

Count(seq, x) == Cardinality({i \in DOMAIN seq : seq[i] = x})

\* two runs in a row, both completed, every response a 200, no store write failed
TwoCleanRuns == runNo >= 2 /\ runPc = "done" /\ clean.prev /\ clean.cur

-----------------------------------------------------------------------------
(* The claims *)

\* C1: for each retry-wrapped operation, a failure that is not a read timeout
\* (an HTTP error status, or any other exception) is never retried: every
\* retry the wrapper makes follows an attempt that failed by a read timeout.
C1_OnlyTimeoutsRetried == \A r \in retried : r[3]

\* C2: when a retry-wrapped call times out on all 3 attempts, the error that
\* reaches its caller is the read-timeout error itself, also when the timeout
\* is on the page-listing request before any record of the page was read.
C2_ExhaustionRaisesTimeout == \A e \in exhausted : e[2] = "ReadTimeout"

\* C3: in one extraction run each single remote call (the listing request of a
\* page, the person request of a record, the deal request of a record) is
\* sent at most 3 times, re-executions by the page task's retry included.
C3_AtMostThreeAttempts == \A c \in DOMAIN reqCount : reqCount[c] <= StopAfterAttempt

\* C4: every remote request of an extraction run (summary probe, page listing,
\* person detail, deal detail) is preceded by its own acquisition of the
\* rate limiter; none is sent without one.
C4_EveryRequestThrottled == unthrottled = {}

\* C5: for all four kinds of remote call a response whose status is not 200
\* raises; it is never parsed, and never becomes an absent result that
\* silently skips the record.
C5_Non200Raises == lenient = {}

\* C6: when a page task fails, run() raises to its caller only after every
\* page task has settled: none is in flight when run() raises, and none is
\* cancelled mid-page.
C6_RaisesAfterAllSettle ==
    /\ runPc = "raised" => atRaise = {}
    /\ \A p \in DOMAIN task : task[p].pc # "cancelled"

C8_StepsInOrder ==
    LET n == Len(stepLog) IN
    /\ n <= 2 * Len(Steps)
    /\ \A k \in 1 .. n :
          LET step == Steps[(k + 1) \div 2] IN
          IF k % 2 = 1 THEN stepLog[k] = << "start", step >>
          ELSE \/ stepLog[k] = << "end", step >>
               \/ k = n /\ stepLog[k] = << "fail", step >> /\ mainPc.phase = "crashed"
    /\ mainPc.phase = "exit" => n = 2 * Len(Steps)

\* C8 witness: purls failed after extraction and mailers had ended.
C8_Witness ==
    /\ mainPc = At(3, "crashed")
    /\ stepLog = << << "start", "extraction" >>, << "end", "extraction" >>,
                    << "start", "mailers" >>, << "end", "mailers" >>,
                    << "start", "purls" >>, << "fail", "purls" >> >>

\* C9: a record whose person reference is missing or unresolvable is skipped
\* with no request and no upsert, and a page with zero records returns
\* without error; no error comes of either, the rest of the page is still
\* processed, and a page task ends "done" with every record handled.
C9_SkipIsNotFatal ==
    /\ \A p \in DOMAIN task :
          LET t == task[p]
              recs == Records(p)
          IN
          /\ \A i \in DOMAIN t.handled :
                Unresolvable(recs[i].person_id) => t.handled[i] = "skipped"
          /\ t.pc \in RecordStages =>
                /\ t.idx = Len(t.handled) + 1
                /\ ~Unresolvable(recs[t.idx].person_id)
          /\ t.pc = "failed" /\ t.idx > 0 => ~Unresolvable(recs[t.idx].person_id)
          /\ t.pc = "done" => Len(t.handled) = Len(recs) /\ t.err = None
    /\ \A c \in DOMAIN reqCount :
          c[1] \in {"person", "deal"} => ~Unresolvable(Records(c[2])[c[3]].person_id)
    /\ DOMAIN store.persons \subseteq
          {RecordAt(remote, c).person_id.value : c \in Resolvable(remote)}
    /\ DOMAIN store.deals \subseteq {RecordAt(remote, c).id : c \in Resolvable(remote)}

\* C9 witness: a page whose first record has an empty wrapper ended with that
\* record skipped and the next ones saved, beside a page of zero records that
\* returned.
C9_Witness ==
    /\ remote = "B"
    /\ runPc = "done"
    /\ task[1].handled = << "skipped", "saved", "saved" >>
    /\ Records(2) = << >>
    /\ task[2].pc = "done"

\* C10: a failure of a store write (duplicate key or any other exception of
\* the upsert) never leaves insert_or_update_document: it is no task's or
\* run's error and causes no retry, and the page task goes on with the next
\* write and the next record.
C10_StoreFailureSwallowed ==
    /\ \A r \in retried : r[2] \notin {"DuplicateKeyError", "Exception"}
    /\ runErr \notin {"DuplicateKeyError", "Exception"}
    /\ \A p \in DOMAIN task :
          LET t == task[p] IN
          /\ t.err \notin {"DuplicateKeyError", "Exception"}
          /\ t.pc # "cancelled" =>
                t.writes = 2 * Count(t.handled, "saved")
                           + (IF t.pc = "upsert_deal" THEN 1 ELSE 0)
    /\ runPc = "gather" /\ lenient = {} =>
          \A p \in DOMAIN task :
              task[p].pc = "done" =>
                  task[p].writes = 2 * Cardinality({c \in Resolvable(remote) : c[1] = p})

\* C10 witness: every page task of a run returned although a write of each
\* collection had failed, one with a duplicate key, one with another exception.
C10_Witness ==
    /\ runPc = "gather"
    /\ \A p \in DOMAIN task : task[p].pc = "done"
    /\ << "persons", "Exception" >> \in swallowed
    /\ << "deals", "DuplicateKeyError" >> \in swallowed
    /\ \E p \in DOMAIN task : Count(task[p].handled, "saved") > 0

\* a phone that is absent, or a canonical one: digits only, at least 10
CanonicalPhone(s) ==
    Falsy(s) \/ (Len(s) >= 10 /\ \A i \in DOMAIN s : IsDigit(s[i]))

\* an email that is absent, or of the shape local@domain.tld all through
CanonicalEmail(s) ==
    \/ Falsy(s)
    \/ /\ EmailRegexMatch(s)
       /\ Cardinality({i \in DOMAIN s : s[i] = "@"}) = 1
       /\ \A i \in DOMAIN s : s[i] # " "

\* C11: every Person document that extraction writes to the store has a
\* phone_number that is absent or digits only with at least 10 digits, and an
\* email that is absent or one email-shaped string, whatever the person's
\* source phone numbers and emails (several of them, malformed ones).
C11_StoredContactsCanonical ==
    \A pid \in DOMAIN store.persons :
        /\ CanonicalPhone(store.persons[pid].phone_number)
        /\ CanonicalEmail(store.persons[pid].email)

\* values a stage_order_nr can hold: numbers in and around the enum, a
\* numeral as a string, and null (no stage number)
StageInputs == {Number(n) : n \in -2 .. 9} \cup {String("3"), Null}

Mapped(number) == number.type = "number" /\ number.v \in 0 .. 7

ValidStageDicts == {[value |-> v, description |-> StageDescription(v)] : v \in 0 .. 7}

\* C12: StageStatus.from_number succeeds for exactly the integers 0..7 and
\* raises for every other value, an absent stage number included; every
\* stage_status in the store has a value in 0..7 with that value's label,
\* and a deal whose stage number is unmapped is never stored: not as a Deal
\* document, and no task gets as far as a write for it.
C12_StageStatusTotalOnEnum ==
    /\ \A x \in StageInputs :
          /\ StageFromNumber(x).ok <=> Mapped(x)
          /\ Mapped(x) => StageToDict(StageFromNumber(x).value).value = x.v
    /\ \A did \in DOMAIN store.deals :
          /\ Mapped(DealDetail(did).stage_order_nr)
          /\ store.deals[did].stage_status =
                StageToDict(DealDetail(did).stage_order_nr.v)
    /\ \A pid \in DOMAIN store.persons :
          store.persons[pid].stage_status \in ValidStageDicts
    /\ \A p \in DOMAIN task :
          task[p].pc \in {"upsert_person", "upsert_deal"} =>
              Mapped(DealDetail(Records(p)[task[p].idx].id).stage_order_nr)

\* C12 witness: the page task failed on a deal with stage number 8 after its
\* deal request was answered, and nothing of that deal is in the store.
C12_Witness ==
    /\ remote = "C"
    /\ 1 \in DOMAIN task
    /\ task[1].pc = "failed"
    /\ task[1].idx = 1
    /\ << "fetch_deal_data", "ValueError", FALSE >> \in retried
    /\ faults = 0
    /\ "d5" \notin DOMAIN store.deals

\* C13: for every total_count >= 0 get_total_pages yields exactly
\* ceil(total_count / 100) page descriptors, the i-th (from 0) with offset
\* i * 100 (each with limit 100, the page size), no two alike and none left
\* out; 250 yields the offsets 0, 100, 200 and 0 yields no descriptor.  One
\* page task is made per descriptor.
C13_PagesCoverTotal ==
    runPc = "gather" =>
        LET n == Len(pages) IN
        /\ n * 100 >= total_count
        /\ (n - 1) * 100 < total_count
        /\ \A i \in 1 .. n : pages[i] = (i - 1) * 100
        /\ \A i, j \in 1 .. n : pages[i] = pages[j] => i = j
        /\ total_count = 250 => pages = << 0, 100, 200 >>
        /\ total_count = 0 => pages = << >>
        /\ DOMAIN task = DOMAIN pages

\* C13 witness: the summary reported 250 records and the descriptors are
\* those of the offsets 0, 100, 200.
C13_Witness ==
    /\ total_count = 250
    /\ runPc = "gather"
    /\ pages = << 0, 100, 200 >>

-----------------------------------------------------------------------------
(* The claims on the reconciliation scripts *)

\* search_data has run
Searched == reconPc \in {"update", "done"}

\* the results of the sheet's i-th value row
ResultsOfRow(i) == {j \in DOMAIN results : results[j].row = RowNumber(i)}

\* the position at which the cursor yields the document id
Position(id) == CHOOSE k \in DOMAIN cursor : cursor[k] = id

\* the stored persons whose digisheet email key (phone key) is key
WithEmailKey(key) ==
    {id \in DOMAIN store.persons : CleanEmail(store.persons[id].email) = key}
WithPhoneKey(key) ==
    {id \in DOMAIN store.persons : CleanPhone(store.persons[id].phone_number) = key}

\* the entry of a digisheet dictionary holds a document of the ids, the one
\* (or one of those) with the latest updated_at, and that instant
LatestOf(entry, ids) ==
    /\ entry.data["_id"] \in ids
    /\ entry.data = Doc(entry.data["_id"])
    /\ entry.updated_at = Strptime(entry.data.updated_at)
    /\ \A id \in ids :
          Strptime(store.persons[id].updated_at) <= Strptime(entry.data.updated_at)

\* C14: in the digisheet index every email key and every phone key of a
\* stored document has an entry, and the entry holds the document with the
\* latest updated_at of all stored documents with that key, in whatever
\* order the collection was iterated.
C14_IndexKeepsLatest ==
    variant = "digisheet" /\ reconPc # "load" =>
        /\ DOMAIN index.email_dict =
              {CleanEmail(store.persons[id].email) : id \in DOMAIN store.persons}
                  \ {NoneStr}
        /\ DOMAIN index.phone_dict =
              {CleanPhone(store.persons[id].phone_number) : id \in DOMAIN store.persons}
                  \ {NoneStr}
        /\ \A key \in DOMAIN index.email_dict :
              LatestOf(index.email_dict[key], WithEmailKey(key))
        /\ \A key \in DOMAIN index.phone_dict :
              LatestOf(index.phone_dict[key], WithPhoneKey(key))

\* C14 witness: two documents share an email, the later one came first in
\* the iteration, and the index holds it.
C14_Witness ==
    /\ variant = "digisheet"
    /\ reconPc = "done"
    /\ cursor = << "p3", "p1" >>
    /\ index.email_dict[<< "a", "@", "b", ".", "c" >>].data["_id"] = "p3"
    /\ Strptime(store.persons["p1"].updated_at) < Strptime(store.persons["p3"].updated_at)

\* the stored persons one of whose phone numbers (as the CRM holds them)
\* normalizes to the digits key
PhoneHolders(key) ==
    {id \in DOMAIN store.persons :
        \E k \in DOMAIN PersonDetail(id).phone :
            CleanPhone(PersonDetail(id).phone[k]) = key}

\* a mailers result is a hit that carries the fields of the stored person id
CarriesFieldsOf(result, id) ==
    LET doc == store.persons[id] IN
    /\ doc.benefit_id = result.benefit_id
    /\ doc.address = result.address
    /\ doc.email = result.email
    /\ result.name = doc.name
    /\ result.assigned_to = doc.assigned_to
    /\ result.stage_status = doc.stage_status.description
    /\ result["won/lost"] = doc.won_lost

\* C15, as stated: in the mailers reconciliation a sheet row whose raw phone
\* normalizes to the digits of one of a stored Person's phone numbers gets a
\* matched result that carries that Person document's fields, whatever the
\* punctuation of the raw phone and however many numbers the Person has.
C15_RowCarriesThatPerson ==
    variant = "mailers" /\ Searched =>
        \A i \in DOMAIN rows :
            LET key == CleanPhone(rows[i].phone) IN
            Truthy(key) =>
                \A id \in PhoneHolders(key) :
                    \E j \in ResultsOfRow(i) : CarriesFieldsOf(results[j], id)

\* C15, amended: such a row gets exactly one result, a match and not "N/A",
\* that carries the fields of a stored Person having that phone number: of
\* the one the collection yields last when several Persons share the number.
C15_RowCarriesAHolder ==
    variant = "mailers" /\ Searched =>
        \A i \in DOMAIN rows :
            LET key == CleanPhone(rows[i].phone)
                holders == PhoneHolders(key)
            IN
            Truthy(key) /\ holders # {} =>
                /\ Cardinality(ResultsOfRow(i)) = 1
                /\ \A j \in ResultsOfRow(i) :
                      /\ results[j].benefit_id # "N/A"
                      /\ \E id \in holders :
                            /\ \A other \in holders : Position(other) <= Position(id)
                            /\ CarriesFieldsOf(results[j], id)

\* C15 witness: a row with "(555) 000-1111" was matched to the Person whose
\* second phone number is 555-000-1111.
C15_Witness ==
    /\ variant = "mailers"
    /\ reconPc = "done"
    /\ \E i \in DOMAIN rows :
          /\ rows[i].phone =
                << "(", "5", "5", "5", ")", " ", "0", "0", "0", "-", "1", "1", "1", "1" >>
          /\ PhoneHolders(CleanPhone(rows[i].phone)) = {"p1"}
          /\ \E j \in ResultsOfRow(i) : CarriesFieldsOf(results[j], "p1")

\* the keys of the row are in no dictionary of the index
NoEntry(row_data) ==
    CASE variant = "mailers" -> row_data.phone_number \notin DOMAIN index.phone_dict
      [] variant = "purls" -> row_data.benefit_id \notin DOMAIN index.benefit_dict
      [] variant = "digisheet" ->
            /\ row_data.email \notin DOMAIN index.email_dict
            /\ row_data.phone_number \notin DOMAIN index.phone_dict

\* C16: in each of the three scripts a sheet row that is kept for the join
\* and whose key (and second key, in digisheet) has no index entry gets
\* exactly one result, with every output field the string "N/A"; and that
\* is what is written to the row.
C16_MissIsAllNA ==
    /\ Searched =>
          /\ Len(results) = Len(sheet_data)
          /\ \A i \in DOMAIN sheet_data :
                NoEntry(sheet_data[i]) =>
                    /\ Cardinality({j \in DOMAIN results :
                                        results[j].row = sheet_data[i].row}) = 1
                    /\ DOMAIN results[i] = OutputFields(variant) \cup {"row"}
                    /\ results[i].row = sheet_data[i].row
                    /\ \A f \in OutputFields(variant) : results[i][f] = "N/A"
    /\ reconPc = "done" =>
          \A i \in DOMAIN sheet_data :
              NoEntry(sheet_data[i]) =>
                  /\ batch_data[i].range = sheet_data[i].row
                  /\ \A c \in 2 .. Len(batch_data[i].values) :
                        batch_data[i].values[c] = "N/A"

\* C16 witness: digisheet looked a row up by email and by phone in an index
\* that has entries, found neither, and gave it an all-"N/A" result.
C16_Witness ==
    /\ variant = "digisheet"
    /\ reconPc = "done"
    /\ index.email_dict # EmptyDocs
    /\ index.phone_dict # EmptyDocs
    /\ \E i \in DOMAIN sheet_data :
          /\ Truthy(sheet_data[i].email)
          /\ Truthy(sheet_data[i].phone_number)
          /\ NoEntry(sheet_data[i])
          /\ results[i].stage_status = "N/A"

\* C17: in the purls reconciliation the index key of a stored document and
\* the lookup key of a sheet row are both clean_benefit_id of the raw
\* benefit id, so a row and a stored Person with the same benefit id
\* ("PURL 7" and "PURL 7", or "PURL 7" and "7") always match.
C17_SameNormalizerBothSides ==
    variant = "purls" /\ Searched =>
        /\ \A key \in DOMAIN index.benefit_dict :
              key = CleanBenefitId(index.benefit_dict[key].benefit_id)
        /\ \A i \in DOMAIN rows, id \in DOMAIN store.persons :
              ( /\ rows[i].benefit_id # NoneStr
                /\ Truthy(CleanBenefitId(rows[i].benefit_id))
                /\ Truthy(store.persons[id].benefit_id)
                /\ CleanBenefitId(rows[i].benefit_id)
                      = CleanBenefitId(store.persons[id].benefit_id) )
              => \E j \in ResultsOfRow(i) : results[j].stage_status # "N/A"

\* C18: in each of the three scripts the result of a row that has a match
\* repeats, as its outcome field, the outcome status extraction stored in
\* the matched Person document (won_lost: "WON", "LOST" or ""), and as its
\* status field the description of the stored stage_status.
C18_HitRepeatsStoredOutcome ==
    Searched =>
        \A i \in DOMAIN sheet_data :
            LET match == Lookup(variant, index, sheet_data[i]) IN
            match # NoMatch =>
                /\ results[i]["won/lost"] = store.persons[match["_id"]].won_lost
                /\ results[i].stage_status =
                      store.persons[match["_id"]].stage_status.description

====
